---- MODULE Spec2Model ----
(***************************************************************************)
(* Model of BatchAnalysis/Analysis.py: Loads_Analysis (summary_stats,      *)
(* load_ranking, full_loads_analysis) and Power_Production (gen_windPDF,   *)
(* AEP).                                                                   *)
(*                                                                         *)
(* Numbers.  Python floats are modelled as exact rationals <<n, d>> in     *)
(* lowest terms with d > 0.  Time series are sequences of integers.        *)
(* Exceptions.  A call either returns (status "ok") or raises (status      *)
(* "raise" with the Python exception class in exc).                        *)
(***************************************************************************)
EXTENDS Integers, Sequences, FiniteSets, TLC

VARIABLES
    call,      \* the invocation: operation name and its arguments
    pc,        \* "ready" before the invoked operation ran, "done" after
    ret,       \* what the operation returned or raised
    inst,      \* attributes of the Power_Production instance (its __dict__)
    pdf_done   \* history: gen_windPDF has returned normally on inst

vars == <<call, pc, ret, inst, pdf_done>>

----------------------------------------------------------------------------
(* Bounds of the model *)

\* largest number of run records (rows of a statistics table) in one call
MaxRuns == 2

----------------------------------------------------------------------------
(* Exact arithmetic *)

Abs(n) == IF n < 0 THEN -n ELSE n

RECURSIVE Gcd(_, _)
Gcd(a, b) == IF b = 0 THEN a ELSE Gcd(b, a % b)

\* the rational n/d in lowest terms, d > 0
Rat(n, d) ==
    LET g == Gcd(Abs(n), Abs(d))
        s == IF d < 0 THEN -1 ELSE 1
    IN  <<(s * n) \div g, (s * d) \div g>>

\* float(k) of an integer k
ToFloat(k) == <<k, 1>>

RatLeq(p, q) == p[1] * q[2] <= q[1] * p[2]

RatAdd(p, q) == Rat(p[1] * q[2] + q[1] * p[2], p[2] * q[2])

\* exact square root of a perfect square
Sqrt(n) == CHOOSE r \in 0..n : r * r = n

Range(s) == {s[i] : i \in DOMAIN s}

RECURSIVE SeqSum(_)
SeqSum(s) == IF s = <<>> THEN 0 ELSE s[1] + SeqSum(Tail(s))

\* min(...) and max(...) of a non-empty sequence
SeqMin(s) == CHOOSE m \in Range(s) : \A e \in Range(s) : m <= e
SeqMax(s) == CHOOSE m \in Range(s) : \A e \in Range(s) : e <= m

----------------------------------------------------------------------------
(* Run records.  A record maps channel names to data.  A datum is           *)
(*   kind "num"     : a numeric array v                                    *)
(*   kind "numtext" : strings of digits, v holds the numbers they spell    *)
(*   kind "text"    : strings that spell no number (v unused)              *)
(*   kind "meta"    : the metadata block (v unused)                        *)

Num(v)     == [kind |-> "num", v |-> v]
NumText(v) == [kind |-> "numtext", v |-> v]
Text       == [kind |-> "text", v |-> <<>>]
Meta       == [kind |-> "meta", v |-> <<>>]

MetricNames == {"min", "max", "std", "mean", "abs", "integrated"}

\* lines 128-134: the six empty metric lists of a channel
NewChannelStats == [m \in MetricNames |-> <<>>]

\* float(): is there a min/max and does it convert (lines 136-137)
FloatOK(d) == d.kind \in {"num", "numtext"} /\ Len(d.v) > 0

\* np.std, np.mean, np.abs reduce numeric arrays only (lines 138-140)
NumpyOK(d) == d.kind = "num"

\* np.std(a): population standard deviation sqrt(n*sum(a^2) - sum(a)^2) / n
NpStd(a) ==
    LET n == Len(a)
        sq == [i \in DOMAIN a |-> a[i] * a[i]]
    IN  Rat(Sqrt(n * SeqSum(sq) - SeqSum(a) * SeqSum(a)), n)

\* np.mean(a)
NpMean(a) == Rat(SeqSum(a), Len(a))

\* max(np.abs(a))
MaxAbs(a) == SeqMax([i \in DOMAIN a |-> Abs(a[i])])

\* np.trapz(y, x): d = diff(x); (d * (y[1:] + y[:-1]) / 2.0).sum(), where the
\* product broadcasts: the two lengths must agree unless one of them is 1
TrapzShapesOK(y, x) ==
    LET nd == Len(x) - 1
        ny == Len(y) - 1
    IN  /\ Len(x) >= 1 /\ Len(y) >= 1
        /\ (nd = ny \/ nd = 1 \/ ny = 1)

NpTrapz(y, x) ==
    LET nd == Len(x) - 1
        ny == Len(y) - 1
        n  == IF nd = 1 THEN ny ELSE IF ny = 1 THEN nd ELSE nd
        d(i)  == IF nd = 1 THEN x[2] - x[1] ELSE x[i + 1] - x[i]
        ys(i) == IF ny = 1 THEN y[2] + y[1] ELSE y[i + 1] + y[i]
        terms == [i \in 1..n |-> d(i) * ys(i)]
    IN  Rat(SeqSum(terms), 2)

\* list.append(e) with the new entry put in front instead of at the end
Put_front(list, e) == <<e>> \o list

\* list.append(e) (lines 136-142)
Put(list, e) == Append(list, e)

\* lines 136-147: the body of the try for one channel of one record.  Each
\* append takes effect before the next expression is evaluated; an exception
\* leaves what was appended so far.
AppendStats(stats, fd, channel) ==
    IF channel \notin DOMAIN fd THEN stats           \* KeyError -> line 146
    ELSE LET da == fd[channel]
             a  == da.v
         IN
         IF ~FloatOK(da) THEN stats                  \* ValueError -> line 144
         ELSE
         LET s2 == [stats EXCEPT !.min = Put(@, ToFloat(SeqMin(a))),
                                 !.max = Put(@, ToFloat(SeqMax(a)))]
         IN
         IF ~NumpyOK(da) THEN s2                     \* TypeError in np.std -> 146
         ELSE
         LET s5 == [s2 EXCEPT !.std  = Put(@, NpStd(a)),
                              !.mean = Put(@, NpMean(a)),
                              !.abs  = Put(@, ToFloat(MaxAbs(a)))]
         IN
         IF "Time" \notin DOMAIN fd THEN s5          \* KeyError -> line 146
         ELSE IF ~NumpyOK(fd["Time"]) \/ ~TrapzShapesOK(fd["Time"].v, a)
              THEN s5                                \* ValueError in np.trapz -> 144
         ELSE [s5 EXCEPT !.integrated = Put(@, NpTrapz(fd["Time"].v, a))]

\* line 125
Qualifies(channel) == channel # "Time" /\ channel # "meta"

\* lines 115-147: the loop over the records from record i on.  channel_list is
\* a set of names, {} standing for the empty list; once it has been replaced by
\* the keys of a record (line 121) it is no longer equal to [].
RECURSIVE SummaryLoop(_, _, _, _)
SummaryLoop(sum_stats, fast_data, channel_list, i) ==
    IF i > Len(fast_data) THEN sum_stats
    ELSE
    LET fd    == fast_data[i]
        chans == IF channel_list = {} THEN DOMAIN fd ELSE channel_list
        todo  == {c \in chans : Qualifies(c)}
        keys  == DOMAIN sum_stats \cup todo
        old(c) == IF c \in DOMAIN sum_stats THEN sum_stats[c] ELSE NewChannelStats
        next  == [c \in keys |->
                     IF c \in todo THEN AppendStats(old(c), fd, c) ELSE sum_stats[c]]
    IN  SummaryLoop(next, fast_data, chans, i + 1)

\* Loads_Analysis.summary_stats (lines 94-150)
SummaryStats(fast_data, channel_list) ==
    SummaryLoop([c \in {} |-> NewChannelStats], fast_data, channel_list, 1)

----------------------------------------------------------------------------
(* Statistics tables (pd.DataFrame with three-level columns).  A table is a *)
(* function from columns <<case, channel, statistic>> to the column's      *)
(* values, one per row (run); rows are indexed from 0 as in pandas.         *)

\* every name of the model in lexicographic (ASCII) order, as pandas sorts
\* the levels of a MultiIndex
NameOrder == <<"DLC1", "DLC2", "GenPwr", "GenTq", "RootMyb1", "RootMyb2",
               "case 0", "case 1">>

Pos(name) == CHOOSE i \in DOMAIN NameOrder : NameOrder[i] = name

\* the names of S as a sorted list
RECURSIVE SortedSeq(_)
SortedSeq(S) ==
    IF S = {} THEN <<>>
    ELSE LET first == CHOOSE a \in S : \A b \in S : Pos(a) <= Pos(b)
         IN  <<first>> \o SortedSeq(S \ {first})

\* name[:-1]
DropLastChar(name) ==
    CASE name = "RootMyb1" -> "RootMyb"
      [] name = "RootMyb2" -> "RootMyb"
      [] name = "GenTq"    -> "GenT"
      [] name = "GenPwr"   -> "GenPw"

\* pdTools.dict2df: the positional labels of cases that were given no name
DefaultNames == <<"case 0", "case 1">>

CaseName(i, names) == IF names = <<>> THEN DefaultNames[i] ELSE names[i]

\* pdTools.dict2df(list of flat statistics, names): column (case, channel,
\* statistic) holds that statistic's list of that case
Dict2df(dicts, names) ==
    LET cols == {<<CaseName(i, names), ch, st>> :
                    i \in DOMAIN dicts, ch \in UNION {DOMAIN dicts[j] : j \in DOMAIN dicts},
                    st \in MetricNames}
        CaseIdx(nm) == CHOOSE i \in DOMAIN dicts : CaseName(i, names) = nm
    IN  [c \in {k \in cols : k[2] \in DOMAIN dicts[CaseIdx(k[1])]} |->
            dicts[CaseIdx(c[1])][c[2]][c[3]]]

\* number of rows of a table
NRows(df) == IF DOMAIN df = {} THEN 0 ELSE Len(df[CHOOSE c \in DOMAIN df : TRUE])

\* stats_df.columns.levels[0]
Level0(df) == {c[1] : c \in DOMAIN df}

\* stats_df.columns.levels[1]
Level1(df) == {c[2] : c \in DOMAIN df}

----------------------------------------------------------------------------
(* Loads_Analysis.load_ranking *)

NoTable == [bound |-> FALSE]

\* lines 179-184: stats_df after the shape dispatch.  No branch assigns
\* stats_df when stats is a DataFrame.
RankingTable(stats, names) ==
    CASE stats.shape = "dict"      -> [bound |-> TRUE, df |-> Dict2df(stats.dicts, names)]
      [] stats.shape = "list"      -> [bound |-> TRUE, df |-> Dict2df(stats.dicts, names)]
      [] stats.shape = "DataFrame" -> NoTable
      [] OTHER                     -> NoTable

\* a shape test that lets a raw number through
RankingShapeRejected_lax(stats) ==
    stats.shape \notin {"dict", "list", "DataFrame", "float"}

\* line 183: the shape that raises TypeError
RankingShapeRejected(stats) ==
    stats.shape \notin {"dict", "list", "DataFrame"}

RatMax(S) == CHOOSE m \in S : \A e \in S : RatLeq(e, m)
RatMin(S) == CHOOSE m \in S : \A e \in S : RatLeq(m, e)

RECURSIVE RatSum(_)
RatSum(s) == IF s = <<>> THEN <<0, 1>> ELSE RatAdd(s[1], RatSum(Tail(s)))

RatMean(s) == LET t == RatSum(s) IN Rat(t[1], t[2] * Len(s))

\* lines 219-224: which row-wise reduction a statistic selects
Reduction(stat) ==
    CASE stat \in {"max", "abs"}  -> "max"
      [] stat \in {"min"}         -> "min"
      [] stat \in {"mean", "std"} -> "mean"
      [] OTHER                    -> "none"

\* stats_df[col].max/min/mean(axis=1, level=0): per case, the row-wise
\* reduction over that case's columns among cols
ReduceByCase(df, cols, how) ==
    [case \in {c[1] : c \in cols} |->
        LET mine == SortedSeq({c[2] : c \in {k \in cols : k[1] = case}})
            stat == (CHOOSE c \in cols : TRUE)[3]
        IN  [r \in 1..NRows(df) |->
                LET row == [j \in DOMAIN mine |-> df[<<case, mine[j], stat>>][r]]
                IN  CASE how = "max"  -> RatMax(Range(row))
                      [] how = "min"  -> RatMin(Range(row))
                      [] how = "mean" -> RatMean(row)]]

\* a sort that leaves the rows in ascending order
SortOrders_ascending(vals) ==
    {p \in [1..Len(vals) -> 1..Len(vals)] :
        /\ \A i, j \in DOMAIN p : i # j => p[i] # p[j]
        /\ \A i \in 1..(Len(vals) - 1) : RatLeq(vals[p[i]], vals[p[i + 1]])}

\* Series.sort_values(ascending=False): the orders of the rows a descending
\* sort may produce (the default quicksort does not fix the order of ties).
\* Built by selection: any row holding the largest remaining value comes next.
RECURSIVE SelectDesc(_, _)
SelectDesc(vals, left) ==
    IF left = {} THEN {<<>>}
    ELSE LET top == {r \in left : \A q \in left : RatLeq(vals[q], vals[r])}
         IN  UNION {{<<r>> \o t : t \in SelectDesc(vals, left \ {r})} : r \in top}

SortOrders(vals) == SelectDesc(vals, DOMAIN vals)

\* lines 227-231: one ranking frame: for the k-th column of var_df (cases in
\* sorted order) the row indices and values in the chosen sorted order,
\* labelled with the k-th pair of column names of mi_colnames.  pair records
\* which element of cnames the frame was built for.
RankingFrame(var_df, order, mi_name, mi_var, stat, pair) ==
    LET cases == SortedSeq(DOMAIN var_df)
    IN  [k \in DOMAIN cases |->
            [pair |-> pair, case |-> mi_name[k], var |-> mi_var, stat |-> stat,
             idx  |-> [i \in DOMAIN order[cases[k]] |-> order[cases[k]][i] - 1],
             val  |-> [i \in DOMAIN order[cases[k]] |->
                          var_df[cases[k]][order[cases[k]][i]]]]]

Raise(exc) == [status |-> "raise", exc |-> exc]

\* pdTools.df2dict: the columns of the ranking table grouped by case
Df2dict(frames) ==
    [case \in {frames[i].case : i \in DOMAIN frames} |->
        SelectSeq(frames, LAMBDA f : f.case = case)]

\* lines 198-241: the loop over cnames from request i on, then the result.
\* The outcomes form a set because ties may be sorted either way.
RECURSIVE RankingLoop(_, _, _, _, _, _, _)
RankingLoop(stats_df, names, ranking_vars, ranking_stats, i, collected, var_df) ==
    IF i > Len(ranking_vars) \/ i > Len(ranking_stats)        \* zip, line 194
    THEN IF collected = <<>>
         THEN {Raise("ValueError")}                   \* pd.concat([]), line 234
         ELSE {[status |-> "ok", load_ranking_df |-> collected,
                load_ranking |-> Df2dict(collected)]}
    ELSE
    LET var     == ranking_vars[i]
        stat    == ranking_stats[i]
        col     == {<<nm, v, stat>> : nm \in Range(names), v \in Range(var)}
        mi_name == SortedSeq(Range(names))                          \* line 200
        mi_var  == IF var # <<>>                                    \* lines 203-206
                   THEN <<DropLastChar(SortedSeq(Range(var))[1])>>
                   ELSE <<>>
    IN
    IF col # {} /\ ~stats_df.bound THEN {Raise("UnboundLocalError")} \* line 211
    ELSE
    LET kept == {c \in col : c \in DOMAIN stats_df.df}              \* lines 210-213
        how  == Reduction(stat)
    IN
    IF kept = {}                                                    \* line 216
    THEN RankingLoop(stats_df, names, ranking_vars, ranking_stats, i + 1,
                     collected, var_df)
    ELSE IF how = "none" /\ ~var_df.bound
    THEN {Raise("UnboundLocalError")}                               \* line 227
    ELSE
    LET new_df == IF how = "none" THEN var_df                       \* var_df is kept
                  ELSE [bound |-> TRUE, df |-> ReduceByCase(stats_df.df, kept, how)]
        cases  == DOMAIN new_df.df
    IN
    IF 2 * Cardinality(cases) # Len(mi_name) * Len(mi_var) * 2      \* line 230
    THEN {Raise("ValueError")}
    ELSE UNION {
           RankingLoop(stats_df, names, ranking_vars, ranking_stats, i + 1,
                       collected \o RankingFrame(new_df.df, order, mi_name,
                                                 mi_var[1], stat, i),
                       new_df) :
           order \in {f \in [cases -> UNION {SortOrders(new_df.df[c]) : c \in cases}] :
                         \A c \in cases : f[c] \in SortOrders(new_df.df[c])}}

\* Loads_Analysis.load_ranking (lines 153-241)
LoadRanking(stats, ranking_stats, ranking_vars, names) ==
    IF RankingShapeRejected(stats) THEN {Raise("TypeError")}        \* line 184
    ELSE
    LET stats_df == RankingTable(stats, names)
    IN
    IF names = <<>> /\ ~stats_df.bound
    THEN {Raise("UnboundLocalError")}                               \* line 189
    ELSE
    LET nms == IF names = <<>> THEN SortedSeq(Level0(stats_df.df)) ELSE names
    IN  RankingLoop(stats_df, nms, ranking_vars, ranking_stats, 1, <<>>, NoTable)

----------------------------------------------------------------------------
(* Loads_Analysis.full_loads_analysis *)

\* the parameters load_ranking requires besides self (line 153)
RankingRequiredArgs == {"stats", "ranking_stats", "ranking_vars"}

\* the arguments the call at line 82 passes
RankingArgsAtLine82 == {"stats"}

\* lines 73-92; fast_data is what the loader returned at line 75
FullLoadsAnalysis(fast_data, get_load_ranking, return_FastData) ==
    LET sum_stats == SummaryStats(fast_data, {})                   \* line 78
        Return(parts) == [status |-> "ok", returned |-> parts, sum_stats |-> sum_stats]
    IN
    IF get_load_ranking /\ ~(RankingRequiredArgs \subseteq RankingArgsAtLine82)
    THEN Raise("TypeError")                                        \* line 82
    ELSE IF return_FastData
         THEN Return(<<"sum_stats", "fast_data">>)                 \* line 86
    ELSE IF get_load_ranking
         THEN Return(<<"sum_stats", "load_rankings">>)             \* line 88
    ELSE IF return_FastData /\ get_load_ranking
         THEN Return(<<"sum_stats", "load_rankings", "fast_data">>) \* line 90
    ELSE Return(<<"sum_stats">>)                                   \* line 92

----------------------------------------------------------------------------
(* Power_Production.  The attribute p_bin of an instance is                 *)
(*   state "unset"   : the instance has no such attribute                  *)
(*   state "notlist" : it holds something that is not a list               *)
(*   state "list"    : it holds the list bins                              *)
(* A bin's probability exp(-pi*(lo/(2*Vavg))^2) - exp(-pi*(hi/(2*Vavg))^2) *)
(* is kept as the triple of Vavg and the two bin edges that determines it.  *)

Unset      == [state |-> "unset", bins |-> <<>>]
NotList    == [state |-> "notlist", bins |-> <<>>]
IsList(b)  == [state |-> "list", bins |-> b]

\* Power_Production.__init__ (lines 253-263): windspeeds = [], then every
\* keyword argument becomes an attribute
NewPowerProduction(kwargs) ==
    [class      |-> "Power_Production",
     windspeeds |-> IF "windspeeds" \in kwargs.given THEN kwargs.windspeeds ELSE <<>>,
     p_bin      |-> IF "p_bin" \in kwargs.given THEN kwargs.p_bin ELSE Unset]

\* lines 289-294: one entry per bin between the edges np.histogram returns
\* (bnums + 1 equally spaced edges over Vrange)
WindBins(Vavg, bnums, Vrange) ==
    LET edge(x) == Rat(Vrange[1] * bnums + x * (Vrange[2] - Vrange[1]), bnums)
    IN  [x \in 1..bnums |-> [Vavg |-> Vavg, lo |-> edge(x - 1), hi |-> edge(x)]]

\* Power_Production.gen_windPDF (lines 265-296): <<instance after, outcome>>
GenWindPDF(self, Vavg, bnums, Vrange) ==
    IF Len(self.windspeeds) = 0 THEN <<self, Raise("ValueError")>>   \* line 287
    ELSE IF bnums < 1 THEN <<self, Raise("ValueError")>>             \* np.histogram
    ELSE LET p_bin == WindBins(Vavg, bnums, Vrange)
         IN  <<[self EXCEPT !.p_bin = IsList(p_bin)],
               [status |-> "ok", p_bin |-> p_bin]>>

\* hours per year (lines 329, 332)
HoursPerYear == 8760

\* lines 320-325: stats_df after the shape dispatch.  No branch assigns
\* stats_df when stats is a DataFrame.
AEPTable(stats) ==
    CASE stats.shape = "dict"      -> [bound |-> TRUE, df |-> Dict2df(stats.dicts, <<>>)]
      [] stats.shape = "list"      -> [bound |-> TRUE, df |-> Dict2df(stats.dicts, <<>>)]
      [] stats.shape = "DataFrame" -> NoTable
      [] OTHER                     -> NoTable

\* line 324: the shape that raises TypeError
AEPShapeRejected(stats) ==
    stats.shape \notin {"dict", "list", "DataFrame"}

\* np.matmul(pwr_array.T, p_bin) * 8760: per selected column, the mean powers
\* to be weighted with the bins; the lengths must agree
Matmul(df, cols, p_bin) ==
    IF cols = {} THEN Raise("KeyError")
    ELSE IF NRows(df) # Len(p_bin) THEN Raise("ValueError")
    ELSE [status |-> "ok",
          AEP |-> [c \in cols |-> [pwr |-> df[c], p_bin |-> p_bin,
                                   hours |-> HoursPerYear]]]

\* Power_Production.AEP (lines 298-336)
AEPOutcome(self, stats) ==
    IF self.p_bin.state = "unset" THEN Raise("AttributeError")       \* line 316
    ELSE IF self.p_bin.state # "list" THEN Raise("ValueError")       \* line 317
    ELSE IF AEPShapeRejected(stats) THEN Raise("TypeError")          \* line 325
    ELSE
    LET stats_df == AEPTable(stats)
    IN
    IF ~stats_df.bound THEN Raise("UnboundLocalError")               \* line 327
    ELSE
    LET df == stats_df.df
    IN
    IF "GenPwr" \in Level0(df)                                       \* line 327
    THEN Matmul(df, {c \in DOMAIN df : c[1] = "GenPwr" /\ c[2] = "mean"},
                self.p_bin.bins)
    ELSE IF "GenPwr" \in Level1(df)                                  \* line 330
    THEN Matmul(df, {c \in DOMAIN df : c[2] = "GenPwr" /\ c[3] = "mean"},
                self.p_bin.bins)
    ELSE Raise("ValueError")                                         \* line 334

----------------------------------------------------------------------------
(* Inputs of summary_stats *)

Absent == [kind |-> "absent", v |-> <<>>]

\* a run record with channels X and Y (either may be missing), Time and meta
MakeRecord(x, y, t) ==
    [c \in {"Time", "meta"} \cup (IF x = Absent THEN {} ELSE {"X"})
                            \cup (IF y = Absent THEN {} ELSE {"Y"}) |->
        CASE c = "Time" -> Num(t)
          [] c = "meta" -> Meta
          [] c = "X"    -> x
          [] c = "Y"    -> y]

XData == {Absent, Num(<<0, 2>>), Num(<<-3, 1>>), Num(<<1, 1, 1>>), Num(<<3>>),
          NumText(<<1, 2>>), Text}
YData == {Absent, Num(<<1, 1, 1>>)}
TimeData == {<<0, 2>>, <<0, 1, 2>>}

RunRecords == {MakeRecord(x, y, t) : x \in XData, y \in YData, t \in TimeData}

SeqsUpTo(S, n) == UNION {[1..k -> S] : k \in 0..n}

ChannelLists == {{}, {"X", "Y", "Time"}}

(* Inputs of load_ranking *)

RankSeries == {<<0, 2>>, <<-3, 1>>}

\* run records holding the blade-root channels over Time [0, 2]
BladeRecords(channels) ==
    {[c \in {"Time", "meta"} \cup channels |->
         CASE c = "Time"     -> Num(<<0, 2>>)
           [] c = "meta"     -> Meta
           [] c = "RootMyb1" -> Num(s1)
           [] c = "RootMyb2" -> Num(s2)] : s1 \in RankSeries, s2 \in RankSeries}

\* flat statistics of n runs, as summary_stats produces them
FlatStats(n) ==
    {SummaryStats(f, {}) : f \in [1..n -> BladeRecords({"RootMyb1", "RootMyb2"})]}
    \cup {SummaryStats(f, {}) : f \in [1..n -> BladeRecords({"RootMyb1"})]}

\* flat statistics of a second case of n runs whose series alternate
SecondCaseStats(n) ==
    {SummaryStats([i \in 1..n |->
                      [c \in {"Time", "meta"} \cup channels |->
                          CASE c = "Time"     -> Num(<<0, 2>>)
                            [] c = "meta"     -> Meta
                            [] c = "RootMyb1" -> Num(IF i % 2 = 1 THEN <<0, 2>> ELSE <<-3, 1>>)
                            [] c = "RootMyb2" -> Num(<<-3, 1>>)]], {}) :
        channels \in {{"RootMyb1", "RootMyb2"}, {"RootMyb1"}}}

RankStatsArgs ==
    UNION {
        {[shape |-> "dict", dicts |-> <<d>>] : d \in FlatStats(n)}
        \cup {[shape |-> "list", dicts |-> <<d>>] : d \in FlatStats(n)}
        \cup {[shape |-> "list", dicts |-> <<d1, d2>>] :
                 d1 \in FlatStats(n), d2 \in SecondCaseStats(n)}
        \cup {[shape |-> "DataFrame", table |-> Dict2df(<<d>>, <<>>)] :
                 d \in FlatStats(n)}
        : n \in 1..MaxRuns}
    \cup {[shape |-> "float"], [shape |-> "NoneType"]}

RankStatNames == {"max", "min", "mean", "std", "abs", "integrated"}

RankVarGroups == {<<"RootMyb1">>, <<"RootMyb2">>, <<"RootMyb1", "RootMyb2">>,
                  <<"GenTq">>, <<"RootMyb1", "GenTq">>}

\* (ranking_vars, ranking_stats): every single request, and some longer ones
RankRequests ==
    {<<(<<g>>), (<<st>>)>> : g \in RankVarGroups, st \in RankStatNames}
    \cup {<<(<< <<"RootMyb1">>, <<"RootMyb2">> >>), (<<"max", "integrated">>)>>,
          <<(<< <<"GenTq">>, <<"RootMyb1", "RootMyb2">> >>), (<<"max", "min">>)>>,
          <<(<< <<"RootMyb1", "RootMyb2">>, <<"RootMyb1">> >>), (<<"mean", "std">>)>>,
          <<(<< <<"RootMyb1">>, <<"RootMyb2">> >>), (<<"abs">>)>>,
          <<(<<>>), (<<>>)>>}

\* names: the default [], or one name per case
RankNames(stats) ==
    CASE stats.shape = "list" /\ Len(stats.dicts) = 2 -> {<<>>}
      [] stats.shape \in {"float", "NoneType"}          -> {<<>>}
      [] OTHER                                         -> {<<>>, <<"DLC1">>}

(* Inputs of full_loads_analysis: what the loader returns *)

LoaderRecords == BladeRecords({"RootMyb1", "RootMyb2"})

(* Inputs of Power_Production *)

WindSpeeds == <<4, 8>>

PowerRecords ==
    {[c \in {"Time", "meta", "GenPwr"} |->
         CASE c = "Time"   -> Num(<<0, 2>>)
           [] c = "meta"   -> Meta
           [] c = "GenPwr" -> Num(s)] : s \in {<<0, 2>>, <<4, 4>>}}

PowerStats ==
    UNION {{SummaryStats(f, {}) : f \in [1..n -> PowerRecords]} : n \in 1..MaxRuns}
    \cup FlatStats(1)

AEPStatsArgs ==
    {[shape |-> "dict", dicts |-> <<d>>] : d \in PowerStats}
    \cup {[shape |-> "list", dicts |-> <<d>>] : d \in PowerStats}
    \cup {[shape |-> "DataFrame", table |-> Dict2df(<<d>>, <<>>)] : d \in PowerStats}
    \cup {[shape |-> "float"], [shape |-> "NoneType"]}

\* keyword arguments of the constructor: any of windspeeds and p_bin
Kwargs ==
    {[given      |-> g,
      windspeeds |-> IF "windspeeds" \in g THEN WindSpeeds ELSE <<>>,
      p_bin      |-> IF "p_bin" \in g THEN pb ELSE Unset] :
        g \in SUBSET {"windspeeds", "p_bin"},
        pb \in {NotList, IsList(WindBins(8, 1, <<2, 26>>))}}

AverageSpeeds == {6, 8}
\* bin counts: none, and one bin per run of a statistics table
BinCounts == 0..MaxRuns
SpeedRanges == {<<2, 26>>}

NoReturn == [status |-> "none"]

NoInstance == [class |-> "none"]

----------------------------------------------------------------------------
Init ==
    /\ \/ \E f \in SeqsUpTo(RunRecords, MaxRuns), cl \in ChannelLists :
              call = [op |-> "summary_stats", fast_data |-> f, channel_list |-> cl]
       \/ \E st \in RankStatsArgs, rq \in RankRequests :
              \E nm \in RankNames(st) :
                 call = [op |-> "load_ranking", stats |-> st, ranking_vars |-> rq[1],
                         ranking_stats |-> rq[2], names |-> nm]
       \/ \E f \in SeqsUpTo(LoaderRecords, MaxRuns), glr \in BOOLEAN, rfd \in BOOLEAN :
              call = [op |-> "full_loads_analysis", fast_data |-> f,
                      get_load_ranking |-> glr, return_FastData |-> rfd]
       \/ call = [op |-> "Power_Production"]
    /\ pc = "ready"
    /\ ret = NoReturn
    /\ inst = NoInstance
    /\ pdf_done = FALSE

\* sum_stats = la.summary_stats(fast_data, channel_list)
summary_stats ==
    /\ pc = "ready"
    /\ call.op = "summary_stats"
    /\ ret' = [status |-> "ok",
               sum_stats |-> SummaryStats(call.fast_data, call.channel_list)]
    /\ pc' = "done"
    /\ UNCHANGED <<call, inst, pdf_done>>

\* load_ranking = la.load_ranking(stats, ranking_stats, ranking_vars, names)
load_ranking ==
    /\ pc = "ready"
    /\ call.op = "load_ranking"
    /\ \E r \in LoadRanking(call.stats, call.ranking_stats, call.ranking_vars,
                             call.names) : ret' = r
    /\ pc' = "done"
    /\ UNCHANGED <<call, inst, pdf_done>>

\* la.full_loads_analysis(filenames, get_load_ranking, return_FastData)
full_loads_analysis ==
    /\ pc = "ready"
    /\ call.op = "full_loads_analysis"
    /\ ret' = FullLoadsAnalysis(call.fast_data, call.get_load_ranking,
                                call.return_FastData)
    /\ pc' = "done"
    /\ UNCHANGED <<call, inst, pdf_done>>

PowerOps == {"Power_Production", "__init__", "gen_windPDF", "AEP"}

\* pp = Power_Production(**kwargs)
Power_Production_init ==
    /\ call.op \in PowerOps
    /\ \E kw \in Kwargs :
          /\ inst' = NewPowerProduction(kw)
          /\ call' = [op |-> "__init__", kwargs |-> kw]
    /\ ret' = [status |-> "ok"]
    /\ pdf_done' = FALSE
    /\ pc' = "done"

\* pp.gen_windPDF(Vavg, bnums, Vrange)
gen_windPDF ==
    /\ inst.class = "Power_Production"
    /\ \E Vavg \in AverageSpeeds, bnums \in BinCounts, Vrange \in SpeedRanges :
          LET out == GenWindPDF(inst, Vavg, bnums, Vrange)
          IN  /\ inst' = out[1]
              /\ ret' = out[2]
              /\ pdf_done' = (pdf_done \/ out[2].status = "ok")
              /\ call' = [op |-> "gen_windPDF", Vavg |-> Vavg, bnums |-> bnums,
                          Vrange |-> Vrange]
    /\ pc' = "done"

\* pp.AEP(stats)
AEP ==
    /\ inst.class = "Power_Production"
    /\ \E st \in AEPStatsArgs :
          /\ ret' = AEPOutcome(inst, st)
          /\ call' = [op |-> "AEP", stats |-> st]
    /\ pc' = "done"
    /\ UNCHANGED <<inst, pdf_done>>

Next ==
    \/ summary_stats
    \/ load_ranking
    \/ full_loads_analysis
    \/ Power_Production_init
    \/ gen_windPDF
    \/ AEP

Spec == Init /\ [][Next]_vars

----------------------------------------------------------------------------
(* Properties *)

Done(op) == pc = "done" /\ call.op = op

AcceptedShapes == {"dict", "list", "DataFrame"}

\* a run record as the loader produces it: channel X is a non-empty numeric
\* series sampled at the time steps of Time
WellFormedX(fd) ==
    /\ "X" \in DOMAIN fd
    /\ fd["X"].kind = "num"
    /\ Len(fd["X"].v) > 0
    /\ Len(fd["X"].v) = Len(fd["Time"].v)

AllWellFormedX ==
    /\ \A k \in DOMAIN call.fast_data : WellFormedX(call.fast_data[k])
    /\ call.channel_list = {} \/ "X" \in call.channel_list

\* number of entries of a metric list of a channel (none when there is no list)
MetricLen(ss, c, m) == IF c \in DOMAIN ss THEN Len(ss[c][m]) ELSE 0

\* C1: summary_stats on N run records that each hold channel X returns six
\* metric lists for X of exactly N entries each, the k-th entry of min, max,
\* std, mean and abs being that statistic of the k-th record's series.
C1_OneEntryPerRecord ==
    (Done("summary_stats") /\ AllWellFormedX) =>
        LET N  == Len(call.fast_data)
            ss == ret.sum_stats
        IN  /\ \A m \in MetricNames : MetricLen(ss, "X", m) = N
            /\ \A k \in 1..N :
                 LET a  == call.fast_data[k]["X"].v
                     n  == Len(a)
                     sq == SeqSum([i \in DOMAIN a |-> a[i] * a[i]])
                     mn == ss["X"]["min"][k]
                     mx == ss["X"]["max"][k]
                     sd == ss["X"]["std"][k]
                     me == ss["X"]["mean"][k]
                     ab == ss["X"]["abs"][k]
                 IN  /\ mn[2] = 1 /\ mn[1] \in Range(a) /\ \A e \in Range(a) : mn[1] <= e
                     /\ mx[2] = 1 /\ mx[1] \in Range(a) /\ \A e \in Range(a) : e <= mx[1]
                     /\ me[1] * n = SeqSum(a) * me[2]
                     /\ sd[1] >= 0
                     /\ sd[1] * sd[1] * n * n = (n * sq - SeqSum(a) * SeqSum(a)) * sd[2] * sd[2]
                     /\ ab[2] = 1 /\ \E e \in Range(a) : ab[1] = Abs(e)
                     /\ \A e \in Range(a) : Abs(e) <= ab[1]

\* C1 witness: two well-formed records with different series were summarised
C1_Witness ==
    /\ Done("summary_stats") /\ AllWellFormedX
    /\ Len(call.fast_data) = 2
    /\ ret.sum_stats["X"]["min"][1] # ret.sum_stats["X"]["min"][2]
    /\ ret.sum_stats["X"]["std"][1] # ret.sum_stats["X"]["std"][2]

\* the expected full_loads_analysis result for a pair of flags
ExpectedParts(get_load_ranking, return_FastData) ==
    CASE get_load_ranking /\ return_FastData   -> <<"sum_stats", "load_rankings", "fast_data">>
      [] get_load_ranking /\ ~return_FastData  -> <<"sum_stats", "load_rankings">>
      [] ~get_load_ranking /\ return_FastData  -> <<"sum_stats", "fast_data">>
      [] OTHER                                 -> <<"sum_stats">>

\* C2: full_loads_analysis returns exactly the results its two flags ask for:
\* statistics, then rankings if get_load_ranking, then raw records if
\* return_FastData.
C2_ReturnsWhatFlagsAsk ==
    Done("full_loads_analysis") =>
        /\ ret.status = "ok"
        /\ ret.returned = ExpectedParts(call.get_load_ranking, call.return_FastData)

\* C3: an AEP call made before any successful gen_windPDF call on the
\* instance raises the ValueError 'Wind speed probabilities do not exist'.
C3_AEPBeforePDFRaisesValueError ==
    (call.op = "AEP" /\ ~pdf_done) => ret = Raise("ValueError")

\* C4: load_ranking, and AEP once the probability bins were computed, raise
\* the shape TypeError and return nothing when stats is neither a dict, a
\* list nor a DataFrame.
C4_BadShapeRaisesTypeError ==
    /\ (Done("load_ranking") /\ call.stats.shape \notin AcceptedShapes)
          => ret = Raise("TypeError")
    /\ (Done("AEP") /\ pdf_done /\ call.stats.shape \notin AcceptedShapes)
          => ret = Raise("TypeError")

\* C4 witness: AEP was given a raw number after gen_windPDF had succeeded
C4_Witness ==
    /\ Done("AEP") /\ pdf_done
    /\ call.stats.shape = "float"
    /\ ret = Raise("TypeError")

\* the statistics table load_ranking ranks
RankedTable == Dict2df(call.stats.dicts, call.names)

\* the value a ranking of (case, group, statistic) gives row r (counted from 1)
\* of the table: the maximum, minimum or mean over the group's columns it has
IsReducedValue(table, val, case, group, stat, r) ==
    LET present == {v \in Range(group) : <<case, v, stat>> \in DOMAIN table}
        cell(v) == table[<<case, v, stat>>][r]
    IN  CASE stat \in {"max", "abs"} ->
                /\ \E v \in present : val = cell(v)
                /\ \A v \in present : RatLeq(cell(v), val)
          [] stat = "min" ->
                /\ \E v \in present : val = cell(v)
                /\ \A v \in present : RatLeq(val, cell(v))
          [] stat \in {"mean", "std"} ->
                val = RatMean([j \in 1..Cardinality(present) |->
                                  cell(SortedSeq(present)[j])])
          [] OTHER -> TRUE

IsPermutationOfRows(idx, n) ==
    /\ Len(idx) = n
    /\ \A r \in 0..(n - 1) : \E i \in DOMAIN idx : idx[i] = r

Trapezoid(t, y) ==
    Rat(SeqSum([i \in 1..(Len(t) - 1) |-> (t[i + 1] - t[i]) * (y[i] + y[i + 1])]), 2)

\* C6: for every run record, the integrated statistic of a channel is the
\* trapezoidal-rule integral of the channel's values against Time.
C6_IntegratedIsTrapezoid ==
    (Done("summary_stats") /\ AllWellFormedX) =>
        \A k \in DOMAIN call.fast_data :
            ret.sum_stats["X"]["integrated"][k]
                = Trapezoid(call.fast_data[k]["Time"].v, call.fast_data[k]["X"].v)

\* the columns a load_ranking call asks for
RequestedColumns ==
    LET n  == IF Len(call.ranking_vars) <= Len(call.ranking_stats)
              THEN Len(call.ranking_vars) ELSE Len(call.ranking_stats)
        nm == IF call.names = <<>> THEN SortedSeq(Level0(RankedTable)) ELSE call.names
    IN  UNION {{<<c, v, call.ranking_stats[i]>> :
                    c \in Range(nm), v \in Range(call.ranking_vars[i])} : i \in 1..n}

\* C7: in load_ranking a requested (case, variable, statistic) combination
\* missing from the statistics table never makes the call fail; the call
\* returns the rankings of the remaining combinations.
C7_MissingNeverFails ==
    (/\ Done("load_ranking")
     /\ call.stats.shape \in {"dict", "list"}
     /\ \A i \in DOMAIN call.ranking_stats : Reduction(call.ranking_stats[i]) # "none"
     /\ \E c \in RequestedColumns : c \notin DOMAIN RankedTable)
        => ret.status = "ok"

\* a failure of the shape normalisation: the shape error, or stats_df left
\* without a value
NormalisationFailure ==
    ret.status = "raise" /\ ret.exc \in {"TypeError", "UnboundLocalError"}

\* C8: load_ranking and AEP accept a dict, a list and a DataFrame: none of
\* the three makes the call fail at the shape normalisation.
C8_AcceptedShapesNormalise ==
    /\ (/\ Done("load_ranking")
        /\ call.stats.shape \in AcceptedShapes
        /\ \A i \in DOMAIN call.ranking_stats : Reduction(call.ranking_stats[i]) # "none")
          => ~NormalisationFailure
    /\ (Done("AEP") /\ inst.p_bin.state = "list" /\ call.stats.shape \in AcceptedShapes)
          => ~NormalisationFailure

\* C9: summary_stats without a channel list computes statistics for every
\* channel other than Time and meta that any of the records holds.
C9_AllChannelsOfAllRecords ==
    (Done("summary_stats") /\ call.channel_list = {}) =>
        DOMAIN ret.sum_stats
            = UNION {DOMAIN call.fast_data[k] : k \in DOMAIN call.fast_data}
                \ {"Time", "meta"}

\* all six metrics of channel c can be computed from record fd
Reducible(fd, c) ==
    /\ c \in DOMAIN fd
    /\ fd[c].kind = "num"
    /\ Len(fd[c].v) > 0
    /\ TrapzShapesOK(fd["Time"].v, fd[c].v)

\* C10: a run whose data for a channel is absent or cannot be reduced adds
\* no entry to any of the channel's six lists: the six lists of a channel all
\* have as many entries as there are runs that were reduced successfully.
C10_ListsStayAligned ==
    Done("summary_stats") =>
        \A c \in DOMAIN ret.sum_stats : \A m \in MetricNames :
            Len(ret.sum_stats[c][m])
                = Cardinality({k \in DOMAIN call.fast_data :
                                  Reducible(call.fast_data[k], c)})

====
